---- MODULE Spec2Model ----
(***************************************************************************)
(* Model of the campaign adaptation software: VideoProcessor               *)
(* (src/src/video_processor.py) as driven by the Streamlit script          *)
(* (src/app.py).  A filter chain is a sequence of stages; a stage is the   *)
(* record of one "name=arg:arg:..." item of the FFmpeg filter string.      *)
(* An optional value (Python None or a value) is a sequence of length 0    *)
(* or 1; a crop-center hint (cx, cy) is a pair of twentieths (16 is 0.8).   *)
(***************************************************************************)
EXTENDS Integers, Sequences, FiniteSets, TLC

VARIABLES source, op, args, calls, result

vars == <<source, op, args, calls, result>>

(* ------------------------------ bounds -------------------------------- *)

\* longest profile list a batch is given
MaxProfiles == 2

\* uploaded videos: file stem and frame size
Sources ==
    { [stem |-> "clip", w |-> 16, h |-> 9],
      [stem |-> "tall", w |-> 9, h |-> 16],
      [stem |-> "tv", w |-> 4, h |-> 3] }

TargetDims == {-1, 0, 9, 16}

Modes == {"fit", "fill", "stretch"}

None == <<>>

Some(v) == <<v>>

RoiCenters == {None, <<10, 10>>, <<16, 10>>}

\* longest sequence of regions handed to union
MaxRegions == 4

\* most sampled frames handed to suggest_crop_center
MaxFrames == 2

\* detected regions, in tenths: two small ones and one reaching over the
\* right edge of the frame
Regions == { [x |-> 1, y |-> 1, w |-> 2, h |-> 2], [x |-> 6, y |-> 6, w |-> 1, h |-> 1], [x |-> 8, y |-> 0, w |-> 5, h |-> 10] }

RegionLists == UNION { [1..n -> Regions] : n \in 0..MaxRegions }

\* what the detector found in one sampled frame
FrameRegions ==
    LET a == [x |-> 1, y |-> 1, w |-> 2, h |-> 2]
        b == [x |-> 6, y |-> 6, w |-> 1, h |-> 1]
        c == [x |-> 8, y |-> 0, w |-> 5, h |-> 10]
    IN  { <<>>, <<a>>, <<b>>, <<c>>, <<a, b>>, <<b, b, b, a>>, <<a, a, b, c, c>> }

FrameLists == UNION { [1..n -> FrameRegions] : n \in 0..MaxFrames }

\* what can go wrong in the AI step of one script run
AiFaults == {"none", "no_api_key", "connection_failed", "extract_frames_raises", "analysis_raises"}

(* ---------------------------- the catalog ----------------------------- *)

\* A dict is the sequence of its items [k, v] in insertion order.
FormatProfile(key, width, height, fps) == [key |-> key, width |-> width, height |-> height, fps |-> fps]

STANDARD_FORMATS ==
    << [k |-> "LED_16x9_FHD", v |-> FormatProfile("LED_16x9_FHD", 1920, 1080, 30)],
      [k |-> "LED_9x16_FHD", v |-> FormatProfile("LED_9x16_FHD", 1080, 1920, 30)],
      [k |-> "LED_4x3_XGA", v |-> FormatProfile("LED_4x3_XGA", 1024, 768, 30)],
      [k |-> "LED_960x320", v |-> FormatProfile("LED_960x320", 960, 320, 30)],
      [k |-> "LED_256x128", v |-> FormatProfile("LED_256x128", 256, 128, 25)],
      [k |-> "LED_1280x720", v |-> FormatProfile("LED_1280x720", 1280, 720, 30)],
      [k |-> "LED_800x600", v |-> FormatProfile("LED_800x600", 800, 600, 30)],
      [k |-> "LED_1024x1024", v |-> FormatProfile("LED_1024x1024", 1024, 1024, 30)] >>

BILLBOARD_FORMATS ==
    << [k |-> "BILLBOARD_14x48", v |-> FormatProfile("BILLBOARD_14x48", 1680, 480, 30)],
      [k |-> "BILLBOARD_12x24", v |-> FormatProfile("BILLBOARD_12x24", 1440, 720, 30)],
      [k |-> "BILLBOARD_6x12", v |-> FormatProfile("BILLBOARD_6x12", 720, 360, 30)] >>

\* the last entry stored under a key of the standard formats
SOCIAL_FORMATS_key_reused ==
    << [k |-> "INSTAGRAM_SQUARE", v |-> FormatProfile("INSTAGRAM_SQUARE", 1080, 1080, 30)],
      [k |-> "INSTAGRAM_STORY", v |-> FormatProfile("INSTAGRAM_STORY", 1080, 1920, 30)],
      [k |-> "YOUTUBE_16x9", v |-> FormatProfile("YOUTUBE_16x9", 1920, 1080, 30)],
      [k |-> "LED_9x16_FHD", v |-> FormatProfile("TIKTOK_9x16", 1080, 1920, 30)] >>

SOCIAL_FORMATS ==
    << [k |-> "INSTAGRAM_SQUARE", v |-> FormatProfile("INSTAGRAM_SQUARE", 1080, 1080, 30)],
      [k |-> "INSTAGRAM_STORY", v |-> FormatProfile("INSTAGRAM_STORY", 1080, 1920, 30)],
      [k |-> "YOUTUBE_16x9", v |-> FormatProfile("YOUTUBE_16x9", 1920, 1080, 30)],
      [k |-> "TIKTOK_9x16", v |-> FormatProfile("TIKTOK_9x16", 1080, 1920, 30)] >>

\* list(d.keys())
dict_keys(d) == [i \in 1..Len(d) |-> d[i].k]

\* d[key]
dict_get(d, key) == d[CHOOSE i \in 1..Len(d) : d[i].k = key].v

\* {**a, **b}: the keys of a keep their place and take the value b has for
\* them, the other keys of b follow
dict_merge(a, b) ==
    LET InB(key) == \E j \in 1..Len(b) : b[j].k = key
        InA(key) == \E i \in 1..Len(a) : a[i].k = key
        NewItem(item) == ~InA(item.k)
    IN  [i \in 1..Len(a) |-> IF InB(a[i].k) THEN [k |-> a[i].k, v |-> dict_get(b, a[i].k)] ELSE a[i]] \o SelectSeq(b, NewItem)

ALL_FORMATS == dict_merge(dict_merge(STANDARD_FORMATS, BILLBOARD_FORMATS), SOCIAL_FORMATS)

get_format_categories ==
    << [k |-> "LED Displays", v |-> dict_keys(STANDARD_FORMATS)],
       [k |-> "Billboards", v |-> dict_keys(BILLBOARD_FORMATS)],
       [k |-> "Social Media", v |-> dict_keys(SOCIAL_FORMATS)] >>

\* the format keys whose checkbox is ticked in some run
CheckableKeys == {"LED_16x9_FHD", "LED_256x128", "BILLBOARD_6x12"}

\* the sidebar's selected_profiles: the ticked keys, in the order the
\* categories list them
selected_profiles(checked) ==
    LET listing == get_format_categories[1].v \o get_format_categories[2].v \o get_format_categories[3].v
        Ticked(key) == key \in checked
    IN  SelectSeq(listing, Ticked)

\* the targets list of the script: catalog entries picked in the sidebar
targets_of(checked) ==
    LET sel == selected_profiles(checked)
    IN  [i \in 1..Len(sel) |-> LET p == dict_get(ALL_FORMATS, sel[i]) IN [key |-> p.key, width |-> p.width, height |-> p.height, fps |-> p.fps]]

AppTargets == { targets_of({k})[1] : k \in CheckableKeys }

TargetLists == { targets_of(c) : c \in { c \in SUBSET CheckableKeys : Cardinality(c) >= 1 /\ Cardinality(c) <= MaxProfiles } }

\* longest ending of a file name given to safe_filename
MaxTail == 2

\* file names, as sequences of characters: a short beginning, one character
\* repeated up to and beyond the length limit, and a short ending
Filenames ==
    LET Rep(c, n) == [i \in 1..n |-> c]
        heads == { <<>>, <<".">>, <<"a", ".">>, <<"/">> }
        tails == UNION { [1..n -> {"a", ".", "/"}] : n \in 0..MaxTail }
    IN  { h \o Rep(c, n) \o t : h \in heads, c \in {"b", " "}, n \in {0, 1, 196, 197, 198, 199, 200, 250}, t \in tails }

FpsValues == {None, Some(0), Some(25), Some(30)}

\* what one run of the FFmpeg process can do: finish, exit non-zero with or
\* without diagnostic text on stderr, or fail to start
Outcomes ==
    { [kind |-> "ok", stderr |-> ""],
      [kind |-> "ffmpeg.Error", stderr |-> "Invalid data found"],
      [kind |-> "ffmpeg.Error", stderr |-> ""],
      [kind |-> "OSError", stderr |-> ""] }

Profiles ==
    { [key |-> "LED_16x9", width |-> 16, height |-> 9],
      [key |-> "LED_9x16", width |-> 9, height |-> 16],
      [key |-> "CUSTOM_0x9", width |-> 0, height |-> 9] }

FpsMaps ==
    { <<>>,
      [k \in {"LED_16x9", "CUSTOM_0x9"} |-> IF k = "LED_16x9" THEN 30 ELSE 0] }

FilenameMaps == { <<>>, [k \in {"LED_9x16"} |-> "portrait.mp4"] }

(* ------------------------- filter construction ------------------------ *)

Stage(name, nums, params) == [name |-> name, nums |-> nums, params |-> params]

Chain(ins, stages, outs) == [ins |-> ins, stages |-> stages, outs |-> outs]

\* the truth value Python gives an Optional[int]
Truthy(opt) == opt # None /\ opt[1] # 0

legibility_stages ==
    << Stage("eq", <<>>, "contrast=1.05:brightness=0.02:saturation=1.08"),
       Stage("unsharp", <<>>, "lx=5:ly=5:la=0.7") >>

\* the two layers scaled the wrong way round
blur_filter_complex_layers_swapped(target_w, target_h) ==
    << Chain(<<"0:v">>,
             << Stage("scale", <<target_w, target_h>>,
                      "force_original_aspect_ratio=decrease"),
                Stage("boxblur", <<20, 2>>, ""),
                Stage("crop", <<target_w, target_h>>, "") >>,
             <<"bg">>),
       Chain(<<"0:v">>,
             << Stage("scale", <<target_w, target_h>>,
                      "force_original_aspect_ratio=increase") >>,
             <<"fg">>),
       Chain(<<"bg", "fg">>,
             << Stage("overlay", <<>>, "(W-w)/2:(H-h)/2") >>,
             <<>>) >>

\* the background left uncropped after the blur
blur_filter_complex_uncropped(target_w, target_h) ==
    << Chain(<<"0:v">>,
             << Stage("scale", <<target_w, target_h>>,
                      "force_original_aspect_ratio=increase"),
                Stage("boxblur", <<20, 2>>, "") >>,
             <<"bg">>),
       Chain(<<"0:v">>,
             << Stage("scale", <<target_w, target_h>>,
                      "force_original_aspect_ratio=decrease") >>,
             <<"fg">>),
       Chain(<<"bg", "fg">>,
             << Stage("overlay", <<>>, "(W-w)/2:(H-h)/2") >>,
             <<>>) >>

\* the filter_complex string of fit mode with a blurred background
blur_filter_complex(target_w, target_h) ==
    << Chain(<<"0:v">>,
             << Stage("scale", <<target_w, target_h>>,
                      "force_original_aspect_ratio=increase"),
                Stage("boxblur", <<20, 2>>, ""),
                Stage("crop", <<target_w, target_h>>, "") >>,
             <<"bg">>),
       Chain(<<"0:v">>,
             << Stage("scale", <<target_w, target_h>>,
                      "force_original_aspect_ratio=decrease") >>,
             <<"fg">>),
       Chain(<<"bg", "fg">>,
             << Stage("overlay", <<>>, "(W-w)/2:(H-h)/2") >>,
             <<>>) >>

\* the pad stage left at its default position, the top-left corner
mode_stages_pad_uncentered(target_w, target_h, mode) ==
    IF mode = "fit"
    THEN << Stage("scale", <<target_w, target_h>>,
                  "force_original_aspect_ratio=decrease"),
            Stage("pad", <<target_w, target_h>>, "color=black") >>
    ELSE << Stage("scale", <<target_w, target_h>>,
                  "force_original_aspect_ratio=increase"),
            Stage("crop", <<target_w, target_h>>, "") >>

\* the crop stage given height:width
mode_stages_crop_transposed(target_w, target_h, mode) ==
    IF mode = "fit"
    THEN << Stage("scale", <<target_w, target_h>>,
                  "force_original_aspect_ratio=decrease"),
            Stage("pad", <<target_w, target_h>>,
                  "(ow-iw)/2:(oh-ih)/2:color=black") >>
    ELSE << Stage("scale", <<target_w, target_h>>,
                  "force_original_aspect_ratio=increase"),
            Stage("crop", <<target_h, target_w>>, "") >>

\* vf_chain after the mode branch, on the paths that reach it
mode_stages(target_w, target_h, mode) ==
    IF mode = "fit"
    THEN << Stage("scale", <<target_w, target_h>>,
                  "force_original_aspect_ratio=decrease"),
            Stage("pad", <<target_w, target_h>>,
                  "(ow-iw)/2:(oh-ih)/2:color=black") >>
    ELSE << Stage("scale", <<target_w, target_h>>,
                  "force_original_aspect_ratio=increase"),
            Stage("crop", <<target_w, target_h>>, "") >>

\* the stages of the mode never appended
vf_chain_boost_only(target_w, target_h, mode, legibility_boost) ==
    IF legibility_boost THEN legibility_stages ELSE <<>>

vf_chain(target_w, target_h, mode, legibility_boost) ==
    mode_stages(target_w, target_h, mode)
        \o (IF legibility_boost THEN legibility_stages ELSE <<>>)

(* --------------------- what FFmpeg does with a chain ------------------- *)

Min(a, b) == IF a < b THEN a ELSE b

Max(a, b) == IF a > b THEN a ELSE b

\* a * b / c rounded to the nearest integer
Rescale(a, b, c) == (2 * a * b + c) \div (2 * c)

\* no frame: the stage cannot be configured and the run fails
NoFrame == <<0, 0>>

\* frame size after scale=w:h:force_original_aspect_ratio=..., for a frame
\* in = <<width, height>>
ScaledSize(stage, in) ==
    LET w == stage.nums[1]
        h == stage.nums[2]
        tmp_w == Rescale(h, in[1], in[2])
        tmp_h == Rescale(w, in[2], in[1])
    IN  IF stage.params = "force_original_aspect_ratio=decrease"
        THEN <<Min(tmp_w, w), Min(tmp_h, h)>>
        ELSE IF stage.params = "force_original_aspect_ratio=increase"
        THEN <<Max(tmp_w, w), Max(tmp_h, h)>>
        ELSE <<w, h>>

\* frame size after one stage; with two inputs (overlay) in is the main one
FrameAfter(stage, in) ==
    CASE stage.name = "scale" -> ScaledSize(stage, in)
      [] stage.name = "pad" ->
            IF in[1] <= stage.nums[1] /\ in[2] <= stage.nums[2]
            THEN <<stage.nums[1], stage.nums[2]>> ELSE NoFrame
      [] stage.name = "crop" ->
            IF stage.nums[1] <= in[1] /\ stage.nums[2] <= in[2]
            THEN <<stage.nums[1], stage.nums[2]>> ELSE NoFrame
      [] OTHER -> in

RECURSIVE ChainOut(_, _)
ChainOut(stages, in) ==
    IF stages = <<>> THEN in
    ELSE ChainOut(Tail(stages), FrameAfter(Head(stages), in))

\* top-left corner of the window a crop stage cuts out of frame in: with no
\* x:y given the window is centered
CropOrigin(stage, in) ==
    IF stage.params = ""
    THEN <<(in[1] - stage.nums[1]) \div 2, (in[2] - stage.nums[2]) \div 2>>
    ELSE NoFrame

\* a -vf chain is a graph of one chain from the input to the output
ChainsOf(run) ==
    IF run.kind = "simple"
    THEN <<Chain(<<"0:v">>, run.filter, <<>>)>>
    ELSE run.filter

\* frame size of the output of a filter graph: the chain without an output
\* label; frames maps each label defined so far to its frame size
RECURSIVE GraphOut(_, _)
GraphOut(chains, frames) ==
    LET c == Head(chains)
        out == ChainOut(c.stages, frames[c.ins[1]])
    IN  IF c.outs = <<>> THEN out
        ELSE GraphOut(Tail(chains), (c.outs[1] :> out) @@ frames)

Canvas(run, src) == GraphOut(ChainsOf(run), "0:v" :> src)

(* ----------------------------- the backend ---------------------------- *)

Error(type, msg, stderr) == [type |-> type, msg |-> msg, stderr |-> stderr]

\* what a helper or a method did: the FFmpeg runs it started, and the
\* exception it raised or the value it returned
Did(runs, raised, ret) == [calls |-> runs, raised |-> raised, ret |-> ret]

_run_simple_filter(input_path, output_path, vf, fps, outcome) ==
    LET output_args ==
            [vcodec |-> "libx264", acodec |-> "aac", preset |-> "fast",
             pix_fmt |-> "yuv420p", movflags |-> "+faststart"]
        run == [kind |-> "simple", input |-> input_path,
                output |-> output_path, filter |-> vf,
                output_args |-> output_args,
                r |-> IF Truthy(fps) THEN fps ELSE None,
                exit |-> outcome]
    IN  CASE outcome.kind = "ok" -> Did(<<run>>, None, None)
          [] outcome.kind = "ffmpeg.Error" /\ outcome.stderr # "" ->
                Did(<<run>>,
                    Some(Error("Exception",
                               <<"FFmpeg processing failed: ", outcome.stderr>>,
                               "")),
                    None)
          [] outcome.kind = "ffmpeg.Error" /\ outcome.stderr = "" ->
                Did(<<run>>,
                    Some(Error("Exception",
                               <<"FFmpeg processing failed: ",
                                 "ffmpeg error (see stderr output for detail)">>,
                               "")),
                    None)
          [] OTHER ->
                Did(<<run>>,
                    Some(Error("Exception",
                               <<"Video processing failed: ", outcome.kind>>,
                               "")),
                    None)

\* the legibility stages forgotten on the complex path
_run_complex_filter_no_boost(input_path, output_path, filter_complex, fps, legibility_boost, outcome) ==
    LET run == [kind |-> "complex", input |-> input_path,
                output |-> output_path, filter |-> filter_complex,
                output_args |->
                    [vcodec |-> "libx264", acodec |-> "aac",
                     movflags |-> "+faststart", preset |-> "medium"],
                r |-> IF Truthy(fps) THEN fps ELSE None,
                exit |-> outcome]
    IN  IF outcome.kind = "ok" THEN Did(<<run>>, None, None)
        ELSE Did(<<run>>, Some(Error(outcome.kind, <<outcome.kind>>, outcome.stderr)), None)

\* the frame rate forgotten on the complex path
_run_complex_filter_no_fps(input_path, output_path, filter_complex, fps, legibility_boost, outcome) ==
    LET last == Len(filter_complex)
        fc == IF legibility_boost
              THEN [filter_complex EXCEPT ![last].stages = @ \o legibility_stages]
              ELSE filter_complex
        run == [kind |-> "complex", input |-> input_path,
                output |-> output_path, filter |-> fc,
                output_args |->
                    [vcodec |-> "libx264", acodec |-> "aac",
                     movflags |-> "+faststart", preset |-> "medium"],
                r |-> None, exit |-> outcome]
    IN  IF outcome.kind = "ok" THEN Did(<<run>>, None, None)
        ELSE Did(<<run>>, Some(Error(outcome.kind, <<outcome.kind>>, outcome.stderr)), None)

\* the complex path run without capturing the standard error stream
_run_complex_filter_uncaptured(input_path, output_path, filter_complex, fps, legibility_boost, outcome) ==
    LET last == Len(filter_complex)
        fc == IF legibility_boost
              THEN [filter_complex EXCEPT ![last].stages = @ \o legibility_stages]
              ELSE filter_complex
        run == [kind |-> "complex", input |-> input_path,
                output |-> output_path, filter |-> fc,
                output_args |->
                    [vcodec |-> "libx264", acodec |-> "aac",
                     movflags |-> "+faststart", preset |-> "medium"],
                r |-> IF Truthy(fps) THEN fps ELSE None,
                exit |-> outcome]
    IN  IF outcome.kind = "ok" THEN Did(<<run>>, None, None)
        ELSE Did(<<run>>, Some(Error(outcome.kind, <<"ffmpeg error (see stderr output for detail)">>, "")), None)

_run_complex_filter(input_path, output_path, filter_complex, fps, legibility_boost, outcome) ==
    LET last == Len(filter_complex)
        fc == IF legibility_boost
              THEN [filter_complex EXCEPT
                      ![last].stages = @ \o legibility_stages]
              ELSE filter_complex
        kwargs ==
            [vcodec |-> "libx264", acodec |-> "aac",
             movflags |-> "+faststart", preset |-> "medium"]
        run == [kind |-> "complex", input |-> input_path,
                output |-> output_path, filter |-> fc,
                output_args |-> kwargs,
                r |-> IF Truthy(fps) THEN fps ELSE None,
                exit |-> outcome]
    IN  CASE outcome.kind = "ok" -> Did(<<run>>, None, None)
          [] outcome.kind = "ffmpeg.Error" ->
                Did(<<run>>,
                    Some(Error("ffmpeg.Error",
                               <<"ffmpeg error (see stderr output for detail)">>,
                               outcome.stderr)),
                    None)
          [] OTHER ->
                Did(<<run>>, Some(Error(outcome.kind, <<outcome.kind>>, "")),
                    None)

(* --------------------------- adapt_to_format -------------------------- *)

\* a hint turning fit into a crop
adapt_to_format_hint_crops_fit(input_path, target_w, target_h, mode, blur_bg, legibility_boost, roi_center, output_path, fps, outcome) ==
    LET out == IF output_path = None
               THEN <<"TEMP_DIR", input_path, "_adapted.mp4">>
               ELSE output_path[1]
        m == IF roi_center # None THEN "fill" ELSE mode
        ran == IF m = "fit" /\ blur_bg
               THEN _run_complex_filter(input_path, out, blur_filter_complex(target_w, target_h), fps, legibility_boost, outcome)
               ELSE _run_simple_filter(input_path, out, vf_chain(target_w, target_h, m, legibility_boost), fps, outcome)
    IN  IF ran.raised = None THEN Did(ran.calls, None, Some(out)) ELSE ran

\* the plan chosen from the name of the input file
adapt_to_format_plan_by_input(input_path, target_w, target_h, mode, blur_bg, legibility_boost, roi_center, output_path, fps, outcome) ==
    LET out == IF output_path = None
               THEN <<"TEMP_DIR", input_path, "_adapted.mp4">>
               ELSE output_path[1]
        boost == legibility_boost /\ input_path # "tall"
        ran == IF mode = "fit" /\ blur_bg
               THEN _run_complex_filter(input_path, out, blur_filter_complex(target_w, target_h), fps, boost, outcome)
               ELSE _run_simple_filter(input_path, out, vf_chain(target_w, target_h, mode, boost), fps, outcome)
    IN  IF ran.raised = None THEN Did(ran.calls, None, Some(out)) ELSE ran

\* the blurred background built in every mode
adapt_to_format_blur_any_mode(input_path, target_w, target_h, mode, blur_bg, legibility_boost, roi_center, output_path, fps, outcome) ==
    LET out == IF output_path = None
               THEN <<"TEMP_DIR", input_path, "_adapted.mp4">>
               ELSE output_path[1]
        ran == IF blur_bg
               THEN _run_complex_filter(input_path, out, blur_filter_complex(target_w, target_h), fps, legibility_boost, outcome)
               ELSE _run_simple_filter(input_path, out, vf_chain(target_w, target_h, mode, legibility_boost), fps, outcome)
    IN  IF ran.raised = None THEN Did(ran.calls, None, Some(out)) ELSE ran

adapt_to_format(input_path, target_w, target_h, mode, blur_bg, legibility_boost, roi_center, output_path, fps, outcome) ==
    LET out == IF output_path = None
               THEN <<"TEMP_DIR", input_path, "_adapted.mp4">>
               ELSE output_path[1]
        vf == vf_chain(target_w, target_h, mode, legibility_boost)
        ran ==
            IF mode = "fit" /\ blur_bg
            THEN _run_complex_filter(input_path, out,
                                     blur_filter_complex(target_w, target_h),
                                     fps, legibility_boost, outcome)
            ELSE IF vf = <<>>
            THEN Did(<<>>,
                     Some(Error("Exception",
                                <<"No video filters generated - this shouldn't happen">>,
                                "")),
                     None)
            ELSE _run_simple_filter(input_path, out, vf, fps, outcome)
    IN  IF ran.raised = None THEN Did(ran.calls, None, Some(out)) ELSE ran

(* ----------------------------- batch_adapt ---------------------------- *)

\* dict.get(key): None when the key is absent
Get(map, key) == IF key \in DOMAIN map THEN Some(map[key]) ELSE None

\* the body of the for loop from profile i on; b holds the arguments
RECURSIVE batch_loop(_, _, _, _)
batch_loop(b, i, outputs, runs) ==
    IF i > Len(b.profiles)
    THEN Did(runs, None, Some(outputs))
    ELSE LET profile == b.profiles[i]
             key == profile.key
             target_fps == Get(b.fps_map, key)
             out_name == IF key \in DOMAIN b.filename_map
                         THEN <<b.filename_map[key]>>
                         ELSE <<b.input_path, "__", key, ".mp4">>
             out_path == <<"OUTPUT_DIR">> \o out_name
             did == adapt_to_format(b.input_path, profile.width, profile.height, b.mode, b.blur_bg, b.legibility_boost, b.roi_center, Some(out_path), target_fps, b.outcomes[i])
         IN  IF did.raised # None
             THEN Did(runs \o did.calls, did.raised, None)
             ELSE batch_loop(b, i + 1, Append(outputs, did.ret[1]), runs \o did.calls)

\* the outputs returned last profile first
batch_adapt_outputs_reversed(input_path, profiles, mode, blur_bg, legibility_boost, roi_center, fps_map, filename_map, outcomes) ==
    LET did == batch_loop([input_path |-> input_path, profiles |-> profiles, mode |-> mode, blur_bg |-> blur_bg, legibility_boost |-> legibility_boost, roi_center |-> roi_center, fps_map |-> fps_map, filename_map |-> filename_map, outcomes |-> outcomes], 1, <<>>, <<>>)
    IN  IF did.ret = None THEN did
        ELSE Did(did.calls, None, Some([i \in 1..Len(did.ret[1]) |-> did.ret[1][Len(did.ret[1]) + 1 - i]]))

batch_adapt(input_path, profiles, mode, blur_bg, legibility_boost, roi_center, fps_map, filename_map, outcomes) ==
    batch_loop([input_path |-> input_path, profiles |-> profiles, mode |-> mode, blur_bg |-> blur_bg, legibility_boost |-> legibility_boost, roi_center |-> roi_center, fps_map |-> fps_map, filename_map |-> filename_map, outcomes |-> outcomes], 1, <<>>, <<>>)

(* ----------------- region union and crop-center hint ----------------- *)

\* A region {x, y, w, h} is a record of tenths of the frame (2 is 0.2); the
\* center of a rectangle is a pair of twentieths.
Region(x, y, w, h) == [x |-> x, y |-> y, w |-> w, h |-> h]

\* right and bottom edges not clamped to the frame
union_unclamped(regions) ==
    IF regions = <<>> THEN None
    ELSE LET Box(i) == [x1 |-> regions[i].x, y1 |-> regions[i].y, x2 |-> regions[i].x + regions[i].w, y2 |-> regions[i].y + regions[i].h]
             RECURSIVE Cover(_, _)
             Cover(i, b) ==
                 IF i > Len(regions) THEN b
                 ELSE Cover(i + 1, [x1 |-> Min(b.x1, Box(i).x1), y1 |-> Min(b.y1, Box(i).y1), x2 |-> Max(b.x2, Box(i).x2), y2 |-> Max(b.y2, Box(i).y2)])
             b == Cover(2, Box(1))
         IN  Some(Region(b.x1, b.y1, b.x2 - b.x1, b.y2 - b.y1))

\* the box of the last region only
union_last_only(regions) ==
    IF regions = <<>> THEN None
    ELSE LET r == regions[Len(regions)]
             x == Max(0, r.x)
             y == Max(0, r.y)
         IN  Some(Region(x, y, Max(0, Min(10, r.x + r.w) - x), Max(0, Min(10, r.y + r.h) - y)))

\* the corner taken from the first region only
union_first_corner(regions) ==
    IF regions = <<>> THEN None
    ELSE LET x == Max(0, regions[1].x)
             y == Max(0, regions[1].y)
             RECURSIVE Far(_, _)
             Far(i, b) ==
                 IF i > Len(regions) THEN b
                 ELSE Far(i + 1, [x2 |-> Max(b.x2, regions[i].x + regions[i].w), y2 |-> Max(b.y2, regions[i].y + regions[i].h)])
             b == Far(1, [x2 |-> 0, y2 |-> 0])
         IN  Some(Region(x, y, Max(0, Min(10, b.x2) - x), Max(0, Min(10, b.y2) - y)))

\* the bounding box of the regions, one region after the other, then
\* clamped to the frame
union(regions) ==
    IF regions = <<>> THEN None
    ELSE LET Box(i) == [x1 |-> regions[i].x, y1 |-> regions[i].y, x2 |-> regions[i].x + regions[i].w, y2 |-> regions[i].y + regions[i].h]
             RECURSIVE Cover(_, _)
             Cover(i, b) ==
                 IF i > Len(regions) THEN b
                 ELSE Cover(i + 1, [x1 |-> Min(b.x1, Box(i).x1), y1 |-> Min(b.y1, Box(i).y1), x2 |-> Max(b.x2, Box(i).x2), y2 |-> Max(b.y2, Box(i).y2)])
             b == Cover(2, Box(1))
             x == Max(0, b.x1)
             y == Max(0, b.y1)
             right == Min(10, b.x2)
             bottom == Min(10, b.y2)
         IN  Some(Region(x, y, Max(0, right - x), Max(0, bottom - y)))

\* every region of a frame kept
Kept_all(frame) == frame

\* the regions kept of one frame
Kept(frame) == SubSeq(frame, 1, Min(3, Len(frame)))

RECURSIVE Pool(_)
Pool(frames) == IF frames = <<>> THEN <<>> ELSE Kept(Head(frames)) \o Pool(Tail(frames))

\* the center of the union of the kept regions of all frames
suggest_crop_center(frames) ==
    LET u == union(Pool(frames))
    IN  IF u = None THEN None ELSE <<2 * u[1].x + u[1].w, 2 * u[1].y + u[1].h>>

(* ----------------------------- file names ----------------------------- *)

safe_chars ==
    { "a", "b", "c", "d", "e", "f", "g", "h", "i", "j", "k", "l", "m",
      "n", "o", "p", "q", "r", "s", "t", "u", "v", "w", "x", "y", "z",
      "A", "B", "C", "D", "E", "F", "G", "H", "I", "J", "K", "L", "M",
      "N", "O", "P", "Q", "R", "S", "T", "U", "V", "W", "X", "Y", "Z",
      "0", "1", "2", "3", "4", "5", "6", "7", "8", "9", "-", "_", "." }

safe_filename(filename) ==
    LET safe_name == [i \in 1..Len(filename) |-> IF filename[i] \in safe_chars THEN filename[i] ELSE "_"]
        n == Len(safe_name)
        HasDot == \E i \in 1..n : safe_name[i] = "."
        LastDot == CHOOSE i \in 1..n : safe_name[i] = "." /\ \A j \in (i + 1)..n : safe_name[j] # "."
        name_part == SubSeq(safe_name, 1, 190)
        extension == IF HasDot THEN SubSeq(safe_name, LastDot + 1, n) ELSE <<>>
    IN  IF n > 200
        THEN (IF extension # <<>> THEN name_part \o <<".">> \o extension ELSE name_part)
        ELSE safe_name

(* ------------------------ the Streamlit script ------------------------ *)

\* what the AI step leaves behind; steps are the calls it made, in order
RoiStep(stopped, steps, roi, roi_center) == [stopped |-> stopped, steps |-> steps, roi |-> roi, roi_center |-> roi_center]

\* the calls of the AI step up to the one that fails
ai_steps(ai_enabled, fault) ==
    IF ~ai_enabled THEN <<>>
    ELSE CASE fault = "no_api_key" -> <<"GeminiClient">>
           [] fault = "connection_failed" -> <<"GeminiClient", "test_connection">>
           [] fault = "extract_frames_raises" -> <<"GeminiClient", "test_connection", "extract_frames">>
           [] OTHER -> <<"GeminiClient", "test_connection", "extract_frames", "suggest_crop_center">>

\* the hint never handed on
roi_detection_hint_dropped(ai_enabled, fault, found, max_frames) ==
    RoiStep(ai_enabled /\ fault = "connection_failed", ai_steps(ai_enabled, fault), IF ai_enabled /\ fault = "none" THEN suggest_crop_center(SubSeq(found, 1, Min(max_frames, Len(found)))) ELSE None, None)

\* the frame center handed on when nothing was detected
roi_detection_center_default(ai_enabled, fault, found, max_frames) ==
    LET roi == IF ai_enabled /\ fault = "none" THEN suggest_crop_center(SubSeq(found, 1, Min(max_frames, Len(found)))) ELSE None
    IN  RoiStep(ai_enabled /\ fault = "connection_failed", ai_steps(ai_enabled, fault), roi, IF roi # None THEN roi ELSE <<10, 10>>)

\* the AI step run whatever the checkbox
roi_detection_always_on(ai_enabled, fault, found, max_frames) ==
    LET roi == IF fault = "none" THEN suggest_crop_center(SubSeq(found, 1, Min(max_frames, Len(found)))) ELSE None
    IN  RoiStep(fault = "connection_failed", ai_steps(TRUE, fault), roi, roi)

\* the AI step of the script; found is what the detector sees in each
\* extracted frame
roi_detection(ai_enabled, fault, found, max_frames) ==
    IF ~ai_enabled THEN RoiStep(FALSE, <<>>, None, None)
    ELSE CASE fault = "no_api_key" -> RoiStep(FALSE, ai_steps(ai_enabled, fault), None, None)
           [] fault = "connection_failed" -> RoiStep(TRUE, ai_steps(ai_enabled, fault), None, None)
           [] fault = "extract_frames_raises" -> RoiStep(FALSE, ai_steps(ai_enabled, fault), None, None)
           [] fault = "analysis_raises" -> RoiStep(FALSE, ai_steps(ai_enabled, fault), None, None)
           [] OTHER ->
                LET frames == SubSeq(found, 1, Min(max_frames, Len(found)))
                    roi == suggest_crop_center(frames)
                IN  RoiStep(FALSE, ai_steps(ai_enabled, fault), roi, IF roi # None THEN roi ELSE None)

(* ------------------------------ the state ----------------------------- *)

NoResult == [raised |-> None, ret |-> None]

Init ==
    /\ source \in Sources
    /\ op = "idle"
    /\ args = <<>>
    /\ calls = <<>>
    /\ result = NoResult

AdaptToFormat ==
    /\ op = "idle"
    /\ \E target_w \in TargetDims, target_h \in TargetDims, mode \in Modes,
          blur_bg \in BOOLEAN, legibility_boost \in BOOLEAN,
          roi_center \in RoiCenters, fps \in FpsValues, outcome \in Outcomes :
          LET did == adapt_to_format(source.stem, target_w, target_h, mode,
                                     blur_bg, legibility_boost, roi_center,
                                     None, fps, outcome)
          IN  /\ op' = "adapt_to_format"
              /\ args' = [target_w |-> target_w, target_h |-> target_h,
                          mode |-> mode, blur_bg |-> blur_bg,
                          legibility_boost |-> legibility_boost,
                          roi_center |-> roi_center, fps |-> fps]
              /\ calls' = did.calls
              /\ result' = [raised |-> did.raised, ret |-> did.ret]
    /\ UNCHANGED source

ProfileLists == UNION { [1..n -> Profiles] : n \in 0..MaxProfiles }

BatchAdapt ==
    /\ op = "idle"
    /\ \E profiles \in ProfileLists, mode \in Modes, blur_bg \in BOOLEAN,
          legibility_boost \in BOOLEAN, roi_center \in RoiCenters,
          fps_map \in FpsMaps, filename_map \in FilenameMaps :
          \E outcomes \in [1..Len(profiles) -> Outcomes] :
             LET did == batch_adapt(source.stem, profiles, mode, blur_bg,
                                    legibility_boost, roi_center, fps_map,
                                    filename_map, outcomes)
             IN  /\ op' = "batch_adapt"
                 /\ args' = [profiles |-> profiles, mode |-> mode,
                             blur_bg |-> blur_bg,
                             legibility_boost |-> legibility_boost,
                             roi_center |-> roi_center, fps_map |-> fps_map,
                             filename_map |-> filename_map]
                 /\ calls' = did.calls
                 /\ result' = [raised |-> did.raised, ret |-> did.ret]
    /\ UNCHANGED source

UnionOf ==
    /\ op = "idle"
    /\ \E regions \in RegionLists :
          /\ op' = "union"
          /\ args' = [regions |-> regions]
          /\ calls' = <<>>
          /\ result' = [raised |-> None, ret |-> union(regions)]
    /\ UNCHANGED source

SuggestCropCenter ==
    /\ op = "idle"
    /\ \E frames \in FrameLists :
          /\ op' = "suggest_crop_center"
          /\ args' = [frames |-> frames]
          /\ calls' = <<>>
          /\ result' = [raised |-> None, ret |-> suggest_crop_center(frames)]
    /\ UNCHANGED source

\* the script from the top down to the buttons
RoiDetection ==
    /\ op = "idle"
    /\ \E ai_enabled \in BOOLEAN, fault \in AiFaults, found \in FrameLists, max_frames \in {3, 20} :
          LET step == roi_detection(ai_enabled, fault, found, max_frames)
          IN  /\ op' = IF step.stopped THEN "stopped" ELSE "buttons"
              /\ args' = [ai_enabled |-> ai_enabled,
                          fault |-> IF ai_enabled THEN fault ELSE "none",
                          steps |-> step.steps,
                          roi |-> step.roi, roi_center |-> step.roi_center]
    /\ calls' = <<>>
    /\ result' = NoResult
    /\ UNCHANGED source

\* the handler of the button "Adapt (single / first selection)"
AdaptSingle ==
    /\ op = "buttons"
    /\ \E targets \in TargetLists, mode_key \in {"fit", "fill"}, blur_bg \in BOOLEAN, legibility \in BOOLEAN, outcome \in Outcomes :
          LET t0 == targets[1]
              passed_blur == IF mode_key = "fit" THEN blur_bg ELSE FALSE
              did == adapt_to_format(source.stem, t0.width, t0.height, mode_key, passed_blur, legibility, args.roi_center, None, Some(t0.fps), outcome)
          IN  /\ op' = "single"
              /\ args' = [ai |-> args, checked_blur_bg |-> blur_bg,
                          target_w |-> t0.width, target_h |-> t0.height,
                          mode |-> mode_key, blur_bg |-> passed_blur,
                          legibility_boost |-> legibility,
                          roi_center |-> args.roi_center, fps |-> Some(t0.fps)]
              /\ calls' = did.calls
              /\ result' = [raised |-> did.raised, ret |-> did.ret]
    /\ UNCHANGED source

\* the handler of the button "Export Batch (ZIP)"
ExportBatch ==
    /\ op = "buttons"
    /\ \E targets \in TargetLists, mode_key \in {"fit", "fill"}, blur_bg \in BOOLEAN, legibility \in BOOLEAN :
          \E outcomes \in [1..Len(targets) -> {o \in Outcomes : o.kind = "ok" \/ o.stderr # ""}] :
             LET passed_blur == IF mode_key = "fit" THEN blur_bg ELSE FALSE
                 keys == { targets[i].key : i \in 1..Len(targets) }
                 fps_map == [k \in keys |-> (CHOOSE t \in AppTargets : t.key = k).fps]
                 did == batch_adapt(source.stem, targets, mode_key, passed_blur, legibility, args.roi_center, fps_map, <<>>, outcomes)
             IN  /\ op' = "batch"
                 /\ args' = [ai |-> args, checked_blur_bg |-> blur_bg,
                             profiles |-> targets, mode |-> mode_key,
                             blur_bg |-> passed_blur,
                             legibility_boost |-> legibility,
                             roi_center |-> args.roi_center,
                             fps_map |-> fps_map, filename_map |-> <<>>]
                 /\ calls' = did.calls
                 /\ result' = [raised |-> did.raised, ret |-> did.ret]
    /\ UNCHANGED source

SafeFilename ==
    /\ op = "idle"
    /\ \E filename \in Filenames :
          /\ op' = "safe_filename"
          /\ args' = [filename |-> filename]
          /\ calls' = <<>>
          /\ result' = [raised |-> None, ret |-> Some(safe_filename(filename))]
    /\ UNCHANGED source

\* the script runs again from the top for the next interaction
Rerun ==
    /\ op # "idle"
    /\ op' = "idle"
    /\ args' = <<>>
    /\ calls' = <<>>
    /\ result' = NoResult
    /\ UNCHANGED source

Next ==
    \/ AdaptToFormat \/ BatchAdapt \/ UnionOf \/ SuggestCropCenter
    \/ RoiDetection \/ AdaptSingle \/ ExportBatch \/ SafeFilename \/ Rerun

Spec == Init /\ [][Next]_vars

(* ------------------------------ properties ---------------------------- *)

Adapted == op = "adapt_to_format"

Batched == op = "batch_adapt"

ValidTarget == args.target_w > 0 /\ args.target_h > 0

Target == <<args.target_w, args.target_h>>

SourceFrame == <<source.w, source.h>>

StageNames(stages) == { stages[i].name : i \in 1..Len(stages) }

\* every stage name of every chain of a run's filter graph
AllStageNames(run) ==
    UNION { StageNames(ChainsOf(run)[i].stages) : i \in 1..Len(ChainsOf(run)) }

\* C1: fit without blur and without legibility boost, for a positive target:
\* one simple run whose chain is exactly scale(decrease) to the target, then
\* pad to the target, centered, black; no eq and no unsharp stage.
C1_FitPadsOnly ==
    (Adapted /\ ValidTarget /\ args.mode = "fit" /\ ~args.blur_bg /\ ~args.legibility_boost) =>
        /\ Len(calls) = 1
        /\ calls[1].kind = "simple"
        /\ calls[1].filter =
              << [name |-> "scale", nums |-> Target,
                  params |-> "force_original_aspect_ratio=decrease"],
                 [name |-> "pad", nums |-> Target,
                  params |-> "(ow-iw)/2:(oh-ih)/2:color=black"] >>
        /\ AllStageNames(calls[1]) \cap {"eq", "unsharp"} = {}

C1_Witness ==
    /\ Adapted /\ args.mode = "fit" /\ ~args.blur_bg /\ ~args.legibility_boost
    /\ Target = <<16, 9>> /\ SourceFrame = <<4, 3>>
    /\ Len(calls) = 1 /\ Len(calls[1].filter) = 2
    /\ result.ret # None

\* C2: fill with no crop-center hint, for a positive target: the chain starts
\* with scale(increase) to the target followed by a crop to exactly the
\* target whose window is centered, and the output canvas is the target.
C2_FillCropsCentered ==
    (Adapted /\ ValidTarget /\ args.mode = "fill" /\ args.roi_center = None) =>
        /\ Len(calls) = 1
        /\ calls[1].kind = "simple"
        /\ Len(calls[1].filter) >= 2
        /\ calls[1].filter[1] =
              [name |-> "scale", nums |-> Target,
               params |-> "force_original_aspect_ratio=increase"]
        /\ calls[1].filter[2].name = "crop"
        /\ calls[1].filter[2].nums = Target
        /\ LET scaled == FrameAfter(calls[1].filter[1], SourceFrame)
           IN  CropOrigin(calls[1].filter[2], scaled) =
                  <<(scaled[1] - args.target_w) \div 2, (scaled[2] - args.target_h) \div 2>>
        /\ Canvas(calls[1], SourceFrame) = Target

C2_Witness ==
    /\ Adapted /\ args.mode = "fill" /\ args.roi_center = None
    /\ Target = <<9, 16>> /\ SourceFrame = <<16, 9>>
    /\ Len(calls) = 1 /\ calls[1].filter[2].name = "crop"
    /\ FrameAfter(calls[1].filter[1], SourceFrame) = <<28, 16>>
    /\ result.ret # None

\* the chains of a run that hold a crop stage
CropChains(run) ==
    { i \in 1..Len(ChainsOf(run)) : "crop" \in StageNames(ChainsOf(run)[i].stages) }

\* C3 as stated: in fit mode, whatever blur_bg and legibility_boost, the
\* output canvas is the target and no crop stage is anywhere in the pipeline.
C3_FitNeverCrops ==
    (Adapted /\ ValidTarget /\ args.mode = "fit") =>
        /\ Len(calls) = 1
        /\ Canvas(calls[1], SourceFrame) = Target
        /\ "crop" \notin AllStageNames(calls[1])

\* C3 amended: in fit mode the output canvas is the target; without blur_bg
\* there is no crop stage, and with blur_bg the only chain with a crop stage
\* is the one that makes the blurred background, labelled bg: the foreground
\* chain and the overlay chain hold none.
C3_FitCropsOnlyBackground ==
    (Adapted /\ ValidTarget /\ args.mode = "fit") =>
        /\ Len(calls) = 1
        /\ Canvas(calls[1], SourceFrame) = Target
        /\ ~args.blur_bg => CropChains(calls[1]) = {}
        /\ args.blur_bg =>
              \A i \in CropChains(calls[1]) : ChainsOf(calls[1])[i].outs = <<"bg">>

C3_Witness ==
    /\ Adapted /\ args.mode = "fit" /\ args.blur_bg /\ args.legibility_boost
    /\ Target = <<9, 16>> /\ SourceFrame = <<16, 9>>
    /\ Len(calls) = 1 /\ CropChains(calls[1]) = {1}
    /\ Canvas(calls[1], SourceFrame) = <<9, 16>>

\* the crop window's corner on one axis when the window of length t is
\* centered on c twentieths of a scaled length len and kept inside it, in
\* twentieths of a pixel
HintedOrigin20(c, len, t) == Max(0, Min(20 * (len - t), c * len - 10 * t))

Within(a, b, d) == a - b <= d /\ b - a <= d

\* the corner of the crop window of a fill run on source frame src
FillCropOrigin(run, src) ==
    CropOrigin(run.filter[2], FrameAfter(run.filter[1], src))

\* C4 as stated: in fill mode with a crop-center hint (cx, cy) the crop
\* window is centered on (cx, cy) of the scaled image, clamped to stay inside
\* it (to the pixel), and for the hint (0.8, 0.5), source 16:9 and target 9:16
\* the crop offset differs from the one produced with no hint.
C4_HintRecentersCrop ==
    (Adapted /\ ValidTarget /\ args.mode = "fill" /\ args.roi_center # None) =>
        LET scaled == FrameAfter(calls[1].filter[1], SourceFrame)
            origin == FillCropOrigin(calls[1], SourceFrame)
            unhinted == adapt_to_format(source.stem, args.target_w, args.target_h, args.mode, args.blur_bg, args.legibility_boost, None, None, args.fps, [kind |-> "ok", stderr |-> ""])
        IN  /\ Within(20 * origin[1], HintedOrigin20(args.roi_center[1], scaled[1], args.target_w), 20)
            /\ Within(20 * origin[2], HintedOrigin20(args.roi_center[2], scaled[2], args.target_h), 20)
            /\ (args.roi_center = <<16, 10>> /\ SourceFrame = <<16, 9>> /\ Target = <<9, 16>>) =>
                  origin # FillCropOrigin(unhinted.calls[1], SourceFrame)

\* C5 as stated: a target with a width or height <= 0 is rejected with
\* InvalidGeometry and no FFmpeg run is started.
C5_InvalidGeometryRejected ==
    (Adapted /\ ~ValidTarget) =>
        /\ calls = <<>>
        /\ result.raised # None
        /\ result.raised[1].type = "InvalidGeometry"

\* C6 as stated: a mode other than fit and fill is rejected with
\* UnsupportedMode, with no pipeline built and no FFmpeg run started.
C6_UnsupportedModeRejected ==
    (Adapted /\ args.mode \notin {"fit", "fill"}) =>
        /\ calls = <<>>
        /\ result.raised # None
        /\ result.raised[1].type = "UnsupportedMode"

\* the runs of the last handler that finished without an error: all of them,
\* or all but the last when the handler raised
Succeeded == IF result.raised = None THEN 1..Len(calls) ELSE 1..(Len(calls) - 1)

Elements(seq) == { seq[i] : i \in 1..Len(seq) }

\* C7 as stated: in a batch every profile is attempted whatever happens to
\* the others, and the outputs of the profiles that succeeded are returned
\* to the caller.
C7_BatchAttemptsEveryProfile ==
    Batched =>
        /\ Len(calls) = Len(args.profiles)
        /\ \A i \in Succeeded :
              result.ret # None /\ calls[i].output \in Elements(result.ret[1])

\* how many stages of a chain have the given name
RECURSIVE CountIn(_, _)
CountIn(stages, name) ==
    IF stages = <<>> THEN 0
    ELSE (IF Head(stages).name = name THEN 1 ELSE 0) + CountIn(Tail(stages), name)

RECURSIVE CountStages(_, _)
CountStages(chains, name) ==
    IF chains = <<>> THEN 0
    ELSE CountIn(Head(chains).stages, name) + CountStages(Tail(chains), name)

\* the chain of a run that feeds the output: the last one
OutputChain(run) == ChainsOf(run)[Len(ChainsOf(run))]

\* C8: with legibility_boost every run's output chain ends with eq(contrast
\* 1.05, brightness 0.02, saturation 1.08) then unsharp, after the stages of
\* the mode, on the single simple chain and on the overlay chain of the blur
\* graph alike, and these are the only eq and unsharp stages; without
\* legibility_boost no run has an eq or an unsharp stage.
C8_LegibilityStagesLast ==
    (Adapted \/ Batched) =>
        \A i \in 1..Len(calls) :
            LET out == OutputChain(calls[i])
                n == Len(out.stages)
            IN  IF args.legibility_boost
                THEN /\ out.outs = <<>>
                     /\ n >= 3
                     /\ out.stages[n - 1] =
                           [name |-> "eq", nums |-> <<>>,
                            params |-> "contrast=1.05:brightness=0.02:saturation=1.08"]
                     /\ out.stages[n] =
                           [name |-> "unsharp", nums |-> <<>>,
                            params |-> "lx=5:ly=5:la=0.7"]
                     /\ CountStages(ChainsOf(calls[i]), "eq") = 1
                     /\ CountStages(ChainsOf(calls[i]), "unsharp") = 1
                     /\ calls[i].kind = "complex" => out.stages[1].name = "overlay"
                ELSE AllStageNames(calls[i]) \cap {"eq", "unsharp"} = {}

C8_Witness ==
    /\ Adapted /\ args.mode = "fit" /\ args.blur_bg /\ args.legibility_boost
    /\ Len(calls) = 1 /\ calls[1].kind = "complex"
    /\ Len(OutputChain(calls[1]).stages) = 3
    /\ OutputChain(calls[1]).stages[3].name = "unsharp"

\* C9: fit with blur_bg, for a positive target: one complex run whose graph
\* makes, from the same input, a background scaled with increase, blurred by
\* boxblur 20 and cropped (centered) to exactly the target, and a foreground
\* scaled with decrease and not padded, and overlays the foreground on the
\* background at ((W-w)/2, (H-h)/2).
C9_BlurredBackgroundLayers ==
    (Adapted /\ ValidTarget /\ args.mode = "fit" /\ args.blur_bg) =>
        /\ Len(calls) = 1
        /\ calls[1].kind = "complex"
        /\ Len(calls[1].filter) = 3
        /\ LET bg == calls[1].filter[1]
               fg == calls[1].filter[2]
               ov == calls[1].filter[3]
               scaled == FrameAfter(bg.stages[1], SourceFrame)
           IN  /\ bg.ins = <<"0:v">> /\ fg.ins = <<"0:v">>
               /\ bg.outs = <<"bg">> /\ fg.outs = <<"fg">>
               /\ Len(bg.stages) = 3
               /\ bg.stages[1] =
                     [name |-> "scale", nums |-> Target,
                      params |-> "force_original_aspect_ratio=increase"]
               /\ bg.stages[2].name = "boxblur" /\ bg.stages[2].nums[1] = 20
               /\ bg.stages[3].name = "crop" /\ bg.stages[3].nums = Target
               /\ CropOrigin(bg.stages[3], scaled) =
                     <<(scaled[1] - args.target_w) \div 2, (scaled[2] - args.target_h) \div 2>>
               /\ ChainOut(bg.stages, SourceFrame) = Target
               /\ fg.stages =
                     << [name |-> "scale", nums |-> Target,
                         params |-> "force_original_aspect_ratio=decrease"] >>
               /\ ov.ins = <<"bg", "fg">>
               /\ ov.stages[1] =
                     [name |-> "overlay", nums |-> <<>>, params |-> "(W-w)/2:(H-h)/2"]

C9_Witness ==
    /\ Adapted /\ args.mode = "fit" /\ args.blur_bg /\ ~args.legibility_boost
    /\ Target = <<16, 9>> /\ SourceFrame = <<9, 16>>
    /\ Len(calls) = 1 /\ calls[1].kind = "complex"
    /\ FrameAfter(calls[1].filter[1].stages[1], SourceFrame) = <<16, 28>>
    /\ ChainOut(calls[1].filter[2].stages, SourceFrame) = <<5, 9>>

\* the fps the request gives for the i-th run of the last handler
RequestedFps(i) ==
    IF Adapted THEN args.fps ELSE Get(args.fps_map, args.profiles[i].key)

\* C10: a run whose request gives a target fps (a positive integer) has the
\* output argument r set to exactly that fps, on the simple and on the complex
\* path; a run whose request gives no fps has no r argument.
C10_FpsForcedWhenGiven ==
    (Adapted \/ Batched) =>
        \A i \in 1..Len(calls) :
            /\ (RequestedFps(i) # None /\ RequestedFps(i)[1] > 0) =>
                  calls[i].r = RequestedFps(i)
            /\ RequestedFps(i) = None => calls[i].r = None

C10_Witness ==
    /\ Batched /\ args.mode = "fit" /\ args.blur_bg
    /\ Len(calls) = 2
    /\ calls[1].kind = "complex" /\ calls[1].r = <<30>>
    /\ calls[2].kind = "complex" /\ calls[2].r = None
    /\ RequestedFps(2) = None

\* C11: every run handed to FFmpeg, on the simple and on the complex path,
\* has a non-empty filter none of whose chains is empty and with at least one
\* scale stage; adapt_to_format never returns without having started a run,
\* and when it starts none it raises.
C11_PipelineNeverEmpty ==
    /\ (Adapted \/ Batched) =>
          \A i \in 1..Len(calls) :
              /\ calls[i].filter # <<>>
              /\ \A j \in 1..Len(ChainsOf(calls[i])) : ChainsOf(calls[i])[j].stages # <<>>
              /\ "scale" \in AllStageNames(calls[i])
    /\ Adapted => (IF calls = <<>> THEN result.raised # None ELSE Len(calls) = 1)

C11_Witness ==
    /\ Adapted /\ args.mode = "fill" /\ args.legibility_boost
    /\ Len(calls) = 1 /\ Len(calls[1].filter) = 4
    /\ calls[1].filter[1].name = "scale"
    /\ result.ret # None

\* the text is part of the exception's message or is its stderr attribute
Carries(err, text) == text \in Elements(err.msg) \/ err.stderr = text

\* C13: when the FFmpeg run of adapt_to_format exits with an error, the
\* call raises; when FFmpeg wrote diagnostics, the exception raised carries
\* them, in its message on the simple path and in its stderr attribute on
\* the complex path; and one call starts at most one FFmpeg run.
C13_BackendFailureCarriesStderr ==
    Adapted =>
        /\ Len(calls) <= 1
        /\ \A i \in 1..Len(calls) :
              /\ calls[i].exit.kind # "ok" => result.raised # None
              /\ (calls[i].exit.kind = "ffmpeg.Error" /\ calls[i].exit.stderr # "")
                    => Carries(result.raised[1], calls[i].exit.stderr)

C13_Witness ==
    /\ Adapted /\ args.mode = "fit" /\ args.blur_bg
    /\ Len(calls) = 1 /\ calls[1].kind = "complex"
    /\ calls[1].exit.kind = "ffmpeg.Error" /\ calls[1].exit.stderr # ""
    /\ result.raised # None /\ result.raised[1].type = "ffmpeg.Error"

\* the plan of a run: its filter and the arguments of its output
Plan(run) == [kind |-> run.kind, filter |-> run.filter, output_args |-> run.output_args, r |-> run.r]

\* C14: the filter and the output arguments of the run a call of
\* adapt_to_format starts are the ones the same call would start for every
\* other input file and every other exit of FFmpeg, and the same call on the
\* same input writes the same output file.
C14_PlanningDeterministic ==
    (Adapted /\ Len(calls) = 1) =>
        \A s \in Sources, o \in Outcomes :
            LET did == adapt_to_format(s.stem, args.target_w, args.target_h, args.mode, args.blur_bg, args.legibility_boost, args.roi_center, None, args.fps, o)
            IN  /\ Len(did.calls) = 1
                /\ Plan(did.calls[1]) = Plan(calls[1])
                /\ s = source => did.calls[1].output = calls[1].output

C14_Witness ==
    /\ Adapted /\ Len(calls) = 1 /\ source.stem = "tall"
    /\ args.legibility_boost /\ args.mode = "fit" /\ ~args.blur_bg
    /\ Len(calls[1].filter) = 4
    /\ calls[1].output = <<"TEMP_DIR", "tall", "_adapted.mp4">>

\* C15: in fit mode, with and without the blurred background, the call does
\* for every crop-center hint (none included) exactly what it did for the
\* hint it was given: same runs, same exception, same return value.
C15_FitIgnoresHint ==
    (Adapted /\ args.mode = "fit" /\ Len(calls) = 1) =>
        \A roi \in RoiCenters :
            adapt_to_format(source.stem, args.target_w, args.target_h, args.mode, args.blur_bg, args.legibility_boost, roi, None, args.fps, calls[1].exit)
              = Did(calls, result.raised, result.ret)

C15_Witness ==
    /\ Adapted /\ args.mode = "fit" /\ args.roi_center # None
    /\ ValidTarget /\ Len(calls) = 1 /\ result.ret # None
    /\ "crop" \notin StageNames(OutputChain(calls[1]).stages)

Unioned == op = "union"

SetMin(S) == CHOOSE m \in S : \A e \in S : m <= e

SetMax(S) == CHOOSE m \in S : \A e \in S : m >= e

\* the center of a rectangle, in twentieths
Center(r) == <<2 * r.x + r.w, 2 * r.y + r.h>>

\* C16: union returns None for the empty sequence; otherwise it returns the
\* rectangle with x = max(0, min r.x), y = max(0, min r.y),
\* w = max(0, min(1, max(r.x + r.w)) - x), h = max(0, min(1, max(r.y + r.h)) - y);
\* for {0.1,0.1,0.2,0.2} and {0.6,0.6,0.1,0.1} that is {0.1,0.1,0.6,0.6},
\* whose center is (0.4, 0.4).
C16_UnionIsBoundingBox ==
    Unioned =>
        LET rs == args.regions
            I == 1..Len(rs)
            x == Max(0, SetMin({ rs[i].x : i \in I }))
            y == Max(0, SetMin({ rs[i].y : i \in I }))
            right == Min(10, SetMax({ rs[i].x + rs[i].w : i \in I }))
            bottom == Min(10, SetMax({ rs[i].y + rs[i].h : i \in I }))
        IN  /\ rs = <<>> => result.ret = None
            /\ rs # <<>> => result.ret = Some([x |-> x, y |-> y, w |-> Max(0, right - x), h |-> Max(0, bottom - y)])
            /\ rs = <<[x |-> 1, y |-> 1, w |-> 2, h |-> 2], [x |-> 6, y |-> 6, w |-> 1, h |-> 1]>> =>
                  /\ result.ret = Some([x |-> 1, y |-> 1, w |-> 6, h |-> 6])
                  /\ Center(result.ret[1]) = <<8, 8>>

C16_Witness ==
    /\ Unioned
    /\ args.regions = <<[x |-> 1, y |-> 1, w |-> 2, h |-> 2], [x |-> 6, y |-> 6, w |-> 1, h |-> 1]>>
    /\ result.ret = Some([x |-> 1, y |-> 1, w |-> 6, h |-> 6])

\* x, y, w and h each in [0, 1]
ValidRegion(r) == \A v \in {r.x, r.y, r.w, r.h} : 0 <= v /\ v <= 10

\* C17 as stated: for every valid region r, union([r]) is r.
C17_SingletonUnionIsRegion ==
    (Unioned /\ Len(args.regions) = 1 /\ ValidRegion(args.regions[1])) =>
        result.ret = Some(args.regions[1])

\* C17 amended: for every valid region r that lies inside the frame
\* (x + w <= 1 and y + h <= 1), union([r]) is r; for a valid region that
\* reaches over the right or bottom edge, union([r]) is r cut at that edge.
C17_SingletonUnionOfRegionInFrame ==
    (Unioned /\ Len(args.regions) = 1 /\ ValidRegion(args.regions[1])) =>
        LET r == args.regions[1]
        IN  /\ (r.x + r.w <= 10 /\ r.y + r.h <= 10) => result.ret = Some(r)
            /\ result.ret = Some([x |-> r.x, y |-> r.y, w |-> Min(r.w, 10 - r.x), h |-> Min(r.h, 10 - r.y)])

C17_Witness ==
    /\ Unioned /\ Len(args.regions) = 1
    /\ args.regions[1] = [x |-> 6, y |-> 6, w |-> 1, h |-> 1]
    /\ result.ret = Some(args.regions[1])

\* C18: union of a non-empty sequence of regions returns the same rectangle
\* for every permutation of the sequence.
C18_UnionOrderIndependent ==
    (Unioned /\ args.regions # <<>>) =>
        \A p \in Permutations(1..Len(args.regions)) :
            union([i \in 1..Len(args.regions) |-> args.regions[p[i]]]) = result.ret

C18_Witness ==
    /\ Unioned /\ Len(args.regions) = 3
    /\ args.regions[1] # args.regions[2] /\ args.regions[2] # args.regions[3]
    /\ args.regions[1] # args.regions[3]
    /\ result.ret = Some([x |-> 1, y |-> 0, w |-> 9, h |-> 10])

\* the script has run its AI step
AfterRoiDetection == op \in {"buttons", "stopped"}

\* a button handler of the script has run
Handled == op \in {"single", "batch"}

\* C12 as stated: when AI guidance is on and the AI step fails (no API key,
\* connection test failed, frame extraction or analysis raised), the script
\* still reaches the buttons with roi_center = None, and the adaptation a
\* button starts in that run is called with roi_center = None.
C12_RoiFailureNeverFatal ==
    /\ (AfterRoiDetection /\ args.ai_enabled /\ args.fault # "none") =>
          (op = "buttons" /\ args.roi_center = None)
    /\ (Handled /\ args.ai.ai_enabled /\ args.ai.fault # "none") =>
          args.roi_center = None

Suggested == op = "suggest_crop_center"

InUnitSquare(c) == 0 <= c[1] /\ c[1] <= 20 /\ 0 <= c[2] /\ c[2] <= 20

\* C19: a hint returned by suggest_crop_center has both coordinates in
\* [0, 1]; the script takes the returned hint as its roi_center, and that is
\* the roi_center argument of the adaptation a button then starts.
C19_HintInUnitSquareAndPassedOn ==
    /\ (Suggested /\ result.ret # None) => InUnitSquare(result.ret)
    /\ (op = "buttons" /\ args.roi # None) =>
          (InUnitSquare(args.roi) /\ args.roi_center = args.roi)
    /\ (Handled /\ args.ai.roi # None) => args.roi_center = args.ai.roi

C19_Witness ==
    /\ op = "single" /\ args.ai.ai_enabled /\ args.ai.roi = <<18, 10>>
    /\ args.roi_center = <<18, 10>> /\ args.mode = "fill"
    /\ Len(calls) = 1

\* C20: suggest_crop_center returns None when no frame has a region (an
\* empty frame list included); when it returned None to the script, the
\* adaptation a button starts gets roi_center = None and its fill crop has no
\* offset, which FFmpeg centers.
C20_NoRegionsNoHint ==
    /\ (Suggested /\ \A i \in 1..Len(args.frames) : args.frames[i] = <<>>) =>
          result.ret = None
    /\ (Handled /\ args.ai.ai_enabled /\ args.ai.fault = "none" /\ args.ai.roi = None) =>
          /\ args.roi_center = None
          /\ \A i \in 1..Len(calls) :
                args.mode = "fill" =>
                    (calls[i].filter[2].name = "crop" /\ Len(calls[i].filter[2].nums) = 2)

C20_Witness ==
    /\ op = "batch" /\ args.ai.ai_enabled /\ args.ai.fault = "none"
    /\ args.ai.roi = None /\ args.roi_center = None
    /\ args.mode = "fill" /\ Len(calls) = 2 /\ result.ret # None

\* the regions among the first three of some frame
KeptSet(frames) == { frames[i][j] : <<i, j>> \in { <<i, j>> \in (1..Len(frames)) \X (1..3) : j <= Len(frames[i]) } }

\* C21: the hint suggest_crop_center returns is the center of the bounding
\* box, clamped to the frame, of the regions that are among the first three
\* of their frame, over all frames together (None when there is none); the
\* regions after the third of a frame have no part in it.
C21_FirstThreeRegionsPooled ==
    Suggested =>
        LET K == KeptSet(args.frames)
            x == Max(0, SetMin({ r.x : r \in K }))
            y == Max(0, SetMin({ r.y : r \in K }))
            right == Min(10, SetMax({ r.x + r.w : r \in K }))
            bottom == Min(10, SetMax({ r.y + r.h : r \in K }))
        IN  /\ K = {} => result.ret = None
            /\ K # {} => result.ret = <<x + right, y + bottom>>
            /\ \A i \in 1..Len(args.frames) :
                  result.ret = suggest_crop_center([args.frames EXCEPT ![i] = SubSeq(@, 1, Min(3, Len(@)))])

C21_Witness ==
    /\ Suggested /\ Len(args.frames) = 2
    /\ Len(args.frames[1]) = 4 /\ args.frames[1][4] # args.frames[1][1]
    /\ Len(args.frames[2]) = 1 /\ args.frames[2][1] = args.frames[1][1]
    /\ result.ret = <<13, 13>>

\* C22: in fill mode the call does with blur_bg true and with blur_bg false
\* exactly what it did (same runs, hence same filter and output arguments,
\* same exception, same return value); and a button handler of the script
\* whose selected mode is fill passes blur_bg = False whatever the checkbox.
C22_FillIgnoresBlur ==
    /\ (Adapted /\ args.mode = "fill" /\ Len(calls) = 1) =>
          \A b \in BOOLEAN :
              adapt_to_format(source.stem, args.target_w, args.target_h, args.mode, b, args.legibility_boost, args.roi_center, None, args.fps, calls[1].exit)
                = Did(calls, result.raised, result.ret)
    /\ (Handled /\ args.mode = "fill") => args.blur_bg = FALSE

C22_Witness ==
    /\ Adapted /\ args.mode = "fill" /\ args.blur_bg /\ ValidTarget
    /\ Len(calls) = 1 /\ calls[1].kind = "simple"
    /\ StageNames(calls[1].filter) = {"scale", "crop"}

\* batch_adapt was called, directly or by the script's batch button
BatchCalled == op \in {"batch_adapt", "batch"}

\* the output path batch_adapt is to give profile i
BatchPath(i) ==
    LET key == args.profiles[i].key
    IN  IF key \in DOMAIN args.filename_map
        THEN <<"OUTPUT_DIR", args.filename_map[key]>>
        ELSE <<"OUTPUT_DIR", source.stem, "__", key, ".mp4">>

\* C23: when batch_adapt raises nothing it has started one run per profile,
\* in list order (run i scales to the size of profile i and writes the path
\* of profile i, with the positive fps of fps_map for its key as r, and no r
\* for a key absent from fps_map), and returns the list of those paths in the
\* same order, path i being OUTPUT_DIR/<stem>__<key_i>.mp4 or
\* OUTPUT_DIR/filename_map[key_i]; two profiles with different keys, neither
\* in filename_map, have different paths.
C23_BatchOutputsInOrder ==
    (BatchCalled /\ result.raised = None) =>
        /\ result.ret # None
        /\ Len(result.ret[1]) = Len(args.profiles)
        /\ Len(calls) = Len(args.profiles)
        /\ \A i \in 1..Len(args.profiles) :
              /\ result.ret[1][i] = BatchPath(i)
              /\ calls[i].output = BatchPath(i)
              /\ calls[i].exit.kind = "ok"
              /\ ChainsOf(calls[i])[1].stages[1].nums = <<args.profiles[i].width, args.profiles[i].height>>
              /\ LET f == Get(args.fps_map, args.profiles[i].key)
                 IN  /\ (f # None /\ f[1] > 0) => calls[i].r = f
                     /\ f = None => calls[i].r = None
        /\ \A i, j \in 1..Len(args.profiles) :
              (/\ args.profiles[i].key # args.profiles[j].key
               /\ args.profiles[i].key \notin DOMAIN args.filename_map
               /\ args.profiles[j].key \notin DOMAIN args.filename_map)
                 => result.ret[1][i] # result.ret[1][j]

C23_Witness ==
    /\ Batched /\ result.raised = None /\ Len(args.profiles) = 2
    /\ args.profiles[1].key = "LED_9x16" /\ args.profiles[2].key = "LED_16x9"
    /\ result.ret = Some(<< <<"OUTPUT_DIR", "portrait.mp4">>, <<"OUTPUT_DIR", source.stem, "__", "LED_16x9", ".mp4">> >>)
    /\ calls[2].r = Some(30) /\ calls[1].r = None

\* C24: with AI guidance off the AI step makes no call (no client, no
\* connection test, no frame extraction, no detector call) and leaves
\* roi_center = None, and the adaptation either button then starts is called
\* with roi_center = None.
C24_AiDisabledNoDetection ==
    /\ (AfterRoiDetection /\ ~args.ai_enabled) =>
          (args.steps = <<>> /\ args.roi_center = None /\ op = "buttons")
    /\ (Handled /\ ~args.ai.ai_enabled) =>
          (args.ai.steps = <<>> /\ args.roi_center = None)

C24_Witness ==
    /\ op = "single" /\ ~args.ai.ai_enabled /\ args.ai.steps = <<>>
    /\ args.roi_center = None /\ Len(calls) = 1 /\ result.ret # None

\* the keys ALL_FORMATS has entries for
CatalogKeys == { ALL_FORMATS[i].k : i \in 1..Len(ALL_FORMATS) }

\* the catalog as C25 describes it
CatalogWellFormed ==
    LET maps == <<STANDARD_FORMATS, BILLBOARD_FORMATS, SOCIAL_FORMATS>>
        KeySet(d) == Elements(dict_keys(d))
        cats == get_format_categories
        Places(key) == { <<c, j>> \in (1..Len(cats)) \X (1..Len(ALL_FORMATS)) : j <= Len(cats[c].v) /\ cats[c].v[j] = key }
    IN  /\ \A i \in 1..Len(ALL_FORMATS) :
              /\ ALL_FORMATS[i].v.key = ALL_FORMATS[i].k
              /\ ALL_FORMATS[i].v.width \in Nat \ {0}
              /\ ALL_FORMATS[i].v.height \in Nat \ {0}
              /\ ALL_FORMATS[i].v.fps \in Nat \ {0}
        /\ \A m, n \in 1..3 : m # n => KeySet(maps[m]) \cap KeySet(maps[n]) = {}
        /\ Len(ALL_FORMATS) = Len(STANDARD_FORMATS) + Len(BILLBOARD_FORMATS) + Len(SOCIAL_FORMATS)
        /\ Elements(ALL_FORMATS) = Elements(STANDARD_FORMATS) \cup Elements(BILLBOARD_FORMATS) \cup Elements(SOCIAL_FORMATS)
        /\ Cardinality(KeySet(ALL_FORMATS)) = Len(ALL_FORMATS)
        /\ \A key \in KeySet(ALL_FORMATS) : Cardinality(Places(key)) = 1

\* C25: every item of ALL_FORMATS holds a profile whose key is the key it
\* is stored under and whose width, height and fps are positive integers; no
\* key is in two of the three category maps and ALL_FORMATS holds exactly
\* their items; get_format_categories lists every key of ALL_FORMATS exactly
\* once, in one category; so every target the script takes from the catalog
\* is such a profile.
C25_CatalogWellFormed ==
    /\ CatalogWellFormed
    /\ op = "batch" =>
          \A i \in 1..Len(args.profiles) :
              /\ args.profiles[i].key \in CatalogKeys
              /\ args.profiles[i].width > 0 /\ args.profiles[i].height > 0
              /\ args.fps_map[args.profiles[i].key] > 0

C25_Witness ==
    /\ op = "batch" /\ Len(args.profiles) = 2
    /\ args.profiles[1] = [key |-> "LED_256x128", width |-> 256, height |-> 128, fps |-> 25]
    /\ args.profiles[2] = [key |-> "BILLBOARD_6x12", width |-> 720, height |-> 360, fps |-> 30]
    /\ Len(ALL_FORMATS) = 15

\* C26 as stated: every run is given video codec libx264, audio codec aac,
\* pixel format yuv420p, a preset and movflags +faststart, and the output
\* arguments of the run are the ones the call would give for every other
\* mode and blur_bg.
C26_EncodingParametersUniform ==
    (Adapted /\ Len(calls) = 1) =>
        /\ LET oa == calls[1].output_args
           IN  /\ oa.vcodec = "libx264" /\ oa.acodec = "aac"
               /\ oa.movflags = "+faststart"
               /\ "preset" \in DOMAIN oa
               /\ "pix_fmt" \in DOMAIN oa /\ oa.pix_fmt = "yuv420p"
        /\ \A mode \in {"fit", "fill"}, blur \in BOOLEAN :
              LET did == adapt_to_format(source.stem, args.target_w, args.target_h, mode, blur, args.legibility_boost, args.roi_center, None, args.fps, calls[1].exit)
              IN  did.calls[1].output_args = calls[1].output_args

\* C27 as stated: the name safe_filename returns has only characters of
\* [a-zA-Z0-9-_.]; for an input of at most 200 characters it has the input's
\* length and the input's character at every position where that character
\* is safe; and it is never longer than 200 characters.
C27_SafeFilenameSafeAndShort ==
    op = "safe_filename" =>
        LET name == args.filename
            out == result.ret[1]
        IN  /\ \A i \in 1..Len(out) : out[i] \in safe_chars
            /\ Len(name) <= 200 =>
                  /\ Len(out) = Len(name)
                  /\ \A i \in 1..Len(name) : name[i] \in safe_chars => out[i] = name[i]
            /\ Len(out) <= 200

====
